---- MODULE Spec2Model ----
(***************************************************************************)
(* Model of thai2transformers:                                             *)
(*   - WordLevelTrainer (thai2transformers/tokenizers.py), the frequency   *)
(*     based vocabulary builder;                                           *)
(*   - build_inputs_with_special_tokens of the tokenizer classes;          *)
(*   - CustomPreTokenizer.split and ThaiWordsNewmmTokenizer (_tokenize,    *)
(*     pickling, save_vocabulary);                                         *)
(*   - the __main__ block of scripts/seq_cls_finetune.py.                  *)
(* An optional Python value (None or a value) is a sequence of length at   *)
(* most one: <<>> is None, <<v>> is v.  A Counter / dict is a sequence of  *)
(* <<key, value>> pairs in insertion order.                                *)
(***************************************************************************)
EXTENDS Integers, Sequences, FiniteSets, TLC

VARIABLES
    \* ---- WordLevelTrainer ----
    status,          \* "new" (not constructed), "ready", "raised" (__init__ raised)
    vocab_size,      \* self.vocab_size (optional int)
    vocab_min_freq,  \* self.vocab_min_freq (optional int)
    special_tokens,  \* self.special_tokens, a list of tokens
    input_files,     \* self.input_files: the files, each a list of lines
    vocab,           \* self.vocab (optional mapping token -> index)
    freq,            \* self.freq (optional list of <<token, count>>)
    opened,          \* indices of the input files opened so far by this instance
    ncalls,          \* count_parallel calls made on this instance
    returned,        \* history of all count_parallel calls: [nth, ok, vocab],
                     \* nth the number of the call on its instance
    out_file         \* the file at output_path (optional): its JSON text and
                     \* what the writing instance's count_parallel last returned

trainerVars == <<status, vocab_size, vocab_min_freq, special_tokens, input_files,
                 vocab, freq, opened, ncalls, returned, out_file>>

VARIABLES
    \* ---- scripts/seq_cls_finetune.py, __main__ ----
    pc,              \* position of the script
    tokenizer_type,  \* args.tokenizer_type
    dataset_name,    \* args.dataset_name
    exc,             \* the uncaught exception that ended the script (optional)
    model_loaded,    \* init_model_tokenizer_for_seq_cls has been entered
    flags,           \* the optional flags of args, as parsed
    training_args,   \* the TrainingArguments init_trainer built (optional)
    \* ---- build_inputs_with_special_tokens ----
    tok_class,       \* the tokenizer class the method is called on
    cls_token_id,    \* self.cls_token_id
    sep_token_id,    \* self.sep_token_id
    token_ids_0,     \* first argument
    token_ids_1,     \* second argument (optional list)
    built            \* the returned list (optional)

scriptVars == <<pc, tokenizer_type, dataset_name, exc, model_loaded, flags, training_args>>

tokVars == <<tok_class, cls_token_id, sep_token_id, token_ids_0, token_ids_1, built>>

VARIABLES
    \* ---- CustomPreTokenizer.split ----
    text,            \* str(normalized_string), a list of characters
    pre_words,       \* the words pre_tokenize_func yields for text
    splits,          \* the returned list of pieces (optional)
    \* ---- ThaiWordsNewmmTokenizer, pickling and save_vocabulary ----
    obj,             \* the live tokenizer: [vocab_file, tokenizer_model]
    state,           \* the dict __getstate__ returned (optional)
    copy,            \* the tokenizer __setstate__ restored (optional)
    tok_out,         \* outcome of _tokenize(text) on the live tokenizer (optional)
    copy_out,        \* outcome of _tokenize(text) on the restored one (optional)
    save_directory,  \* argument of save_vocabulary
    filename_prefix, \* argument of save_vocabulary (optional)
    fs,              \* the files: path -> content
    save_ret         \* what save_vocabulary returned (optional): [value]

splitVars == <<text, pre_words, splits>>

newmmVars == <<obj, state, copy, tok_out, copy_out, save_directory,
               filename_prefix, fs, save_ret>>

vars == <<trainerVars, scriptVars, tokVars, splitVars, newmmVars>>

None == <<>>
Some(v) == <<v>>
Val(o) == o[1]

\* ------------------------------------------------------------------------
\* Bounds
\* ------------------------------------------------------------------------
MaxLines == 1      \* lines per input file
MaxFiles == 2      \* input files
MaxCalls == 2      \* count_parallel calls recorded
MaxSeq == 2        \* length of a list of token ids
MaxId == 2         \* largest token id
MaxText == 3       \* characters of a text
MaxWords == 3      \* words of a segmentation

SpecialTokenSet == {"<s>", "<pad>"}
SpecialLists == {<<>>, <<"<pad>", "<s>">>, <<"<s>", "<s>">>}
\* a line is the list of words pre_tokenize_func yields for it; <<>> is a blank line
LineSet == {<<>>, <<"a", "<s>">>, <<"b", "a">>}
FileSet == UNION {[1..n -> LineSet] : n \in 0..MaxLines}
CorpusSet == UNION {[1..n -> FileSet] : n \in 0..MaxFiles}
SizeSet == {None, Some(1)}
MinFreqSet == {None, Some(2)}

\* ------------------------------------------------------------------------
\* Counter helpers (collections.Counter, insertion ordered)
\* ------------------------------------------------------------------------
Keys(c) == {c[i][1] : i \in 1..Len(c)}

Get(c, k) == IF k \in Keys(c)
             THEN LET i == CHOOSE j \in 1..Len(c) : c[j][1] = k IN c[i][2]
             ELSE 0

\* c[k] += n, appending k when it is new
Incr(c, k, n) ==
    IF k \in Keys(c)
    THEN [i \in 1..Len(c) |-> IF c[i][1] = k THEN <<k, c[i][2] + n>> ELSE c[i]]
    ELSE Append(c, <<k, n>>)

\* del c[k]
Del(c, k) == SelectSeq(c, LAMBDA p : p[1] # k)

RECURSIVE Counter(_)
\* Counter(words)
Counter(words) ==
    IF words = <<>> THEN <<>>
    ELSE Incr(Counter(SubSeq(words, 1, Len(words) - 1)), words[Len(words)], 1)

\* Counter.__add__: keys of the left operand first, then the new keys of the right
CounterAdd(c1, c2) ==
    LET left == [i \in 1..Len(c1) |-> <<c1[i][1], c1[i][2] + Get(c2, c1[i][1])>>]
    IN  left \o SelectSeq(c2, LAMBDA p : p[1] \notin Keys(c1) /\ p[2] > 0)

RECURSIVE Flatten(_)
Flatten(lines) ==
    IF lines = <<>> THEN <<>>
    ELSE Flatten(SubSeq(lines, 1, Len(lines) - 1)) \o lines[Len(lines)]

\* count_one: words of the non-blank lines, counted
count_one(file) ==
    Counter(Flatten(SelectSeq(file, LAMBDA line : Len(line) > 0)))

RECURSIVE SumCounters(_)
\* sum(counters, Counter())
SumCounters(cs) ==
    IF cs = <<>> THEN <<>>
    ELSE CounterAdd(SumCounters(SubSeq(cs, 1, Len(cs) - 1)), cs[Len(cs)])

\* variant: a file already opened by this instance yields no words again
CounterAllUnread ==
    SumCounters([i \in 1..Len(input_files) |->
        IF i \in opened THEN <<>> ELSE count_one(input_files[i])])

CounterAll == SumCounters([i \in 1..Len(input_files) |-> count_one(input_files[i])])

RECURSIVE RemoveSpecial(_, _)
\* the loop of lines 120-124: <<counter_all, special_tok_freq>> after the
\* first n special tokens
RemoveSpecial(c, n) ==
    IF n = 0 THEN <<c, <<>>>>
    ELSE LET prev == RemoveSpecial(c, n - 1)
             tok == special_tokens[n]
         IN  IF tok \in Keys(prev[1])
             THEN <<Del(prev[1], tok), Incr(prev[2], tok, Get(prev[1], tok))>>
             ELSE prev

\* variant: the comparison inverted
KeepByFreqInverted(value, cutoff) == value <= cutoff

\* the cutoff test of line 129
KeepByFreq(value, cutoff) == value >= cutoff

\* the list comprehension of lines 128-129
FilterMinFreq(c) == SelectSeq(c, LAMBDA p : KeepByFreq(p[2], Val(vocab_min_freq)))

\* variant: the special tokens entered with frequency zero
BuildFreqZero(stf, kept) ==
    [i \in 1..Len(special_tokens) |-> <<special_tokens[i], 0>>] \o kept

\* lines 130-131: special tokens first, then the retained list
BuildFreq(stf, kept) ==
    [i \in 1..Len(special_tokens) |->
        <<special_tokens[i], Get(stf, special_tokens[i])>>] \o kept

\* line 132: dict((c[0], i) for i, c in enumerate(self.freq)); a later pair
\* with the same key overwrites the earlier one
BuildVocab(f) ==
    [k \in Keys(f) |->
        (CHOOSE i \in 1..Len(f) : f[i][1] = k /\ \A j \in i+1..Len(f) : f[j][1] # k) - 1]

\* json.dump(self.vocab, f): None is written as null, a dict as an object
JsonDump(v) ==
    IF v = None THEN [kind |-> "null", members |-> {}]
    ELSE [kind |-> "object",
          members |-> {<<k, Val(v)[k]>> : k \in DOMAIN Val(v)}]

\* variant: either cutoff given
InitRaisesEither(vs, mf) == mf # None \/ vs # None

\* __init__ line 88: both cutoffs given
InitRaises(vs, mf) == mf # None /\ vs # None

\* ------------------------------------------------------------------------
\* WordLevelTrainer actions
\* ------------------------------------------------------------------------
TrainerIdle ==
    /\ status = "new"
    /\ vocab_size = None
    /\ vocab_min_freq = None
    /\ special_tokens = <<>>
    /\ input_files = <<>>
    /\ vocab = None
    /\ freq = None
    /\ opened = {}
    /\ ncalls = 0
    /\ returned = <<>>
    /\ out_file = None

\* the defaults of the optional flags, lines 149-161
DefaultFlags ==
    [num_train_epochs |-> 1, learning_rate |-> "1e-05", weight_decay |-> "0.1",
     warmup_ratio |-> "0.06", batch_size |-> 16, no_cuda |-> FALSE, fp16 |-> FALSE,
     greater_is_better |-> FALSE, metric_for_best_model |-> "eval_loss",
     eval_steps |-> 250, logging_steps |-> 10, save_steps |-> 500, seed |-> 2020]

\* command lines: no flag, one flag, or every flag given
GivenFlags ==
    [num_train_epochs |-> 3, learning_rate |-> "3e-05", weight_decay |-> "0.01",
     warmup_ratio |-> "0.1", batch_size |-> 32, no_cuda |-> TRUE, fp16 |-> TRUE,
     greater_is_better |-> TRUE, metric_for_best_model |-> "f1_micro",
     eval_steps |-> 100, logging_steps |-> 50, save_steps |-> 100, seed |-> 7]

FlagsSet ==
    {DefaultFlags, GivenFlags}
    \cup {[DefaultFlags EXCEPT ![k] = GivenFlags[k]] : k \in DOMAIN DefaultFlags}

\* the parameter defaults of init_trainer, lines 83-95
InitTrainerDefaults ==
    [num_train_epochs |-> 1, learning_rate |-> "1e-05", weight_decay |-> "0.1",
     warmup_steps |-> <<"const", "0", 0, "0">>, batch_size |-> 16, eval_steps |-> 250,
     no_cuda |-> TRUE, save_steps |-> 500, seed |-> 2020, logging_steps |-> 10,
     greater_is_better |-> FALSE, fp16 |-> FALSE,
     metric_for_best_model |-> "eval_loss"]

\* init_trainer, lines 97-125: the TrainingArguments fields set from the
\* parameters; save_steps and greater_is_better are not forwarded
init_trainer(p) ==
    [num_train_epochs |-> p.num_train_epochs,
     per_device_train_batch_size |-> p.batch_size,
     per_device_eval_batch_size |-> p.batch_size,
     learning_rate |-> p.learning_rate,
     warmup_steps |-> p.warmup_steps,
     weight_decay |-> p.weight_decay,
     logging_steps |-> p.logging_steps,
     eval_steps |-> p.eval_steps,
     seed |-> p.seed,
     fp16 |-> p.fp16,
     no_cuda |-> p.no_cuda,
     metric_for_best_model |-> p.metric_for_best_model]

ScriptIdle ==
    /\ pc = "idle"
    /\ tokenizer_type = "spm"
    /\ dataset_name = "wisesight_sentiment"
    /\ exc = None
    /\ model_loaded = FALSE
    /\ flags = DefaultFlags
    /\ training_args = None

TokIdle ==
    /\ tok_class = "ThaiRobertaTokenizer"
    /\ cls_token_id = 0
    /\ sep_token_id = 0
    /\ token_ids_0 = <<>>
    /\ token_ids_1 = None
    /\ built = None

SplitIdle ==
    /\ text = <<>>
    /\ pre_words = <<>>
    /\ splits = None

NewmmIdle ==
    /\ obj = [vocab_file |-> "src/newmm.json", tokenizer_model |-> None]
    /\ state = None
    /\ copy = None
    /\ tok_out = None
    /\ copy_out = None
    /\ save_directory = "dst"
    /\ filename_prefix = None
    /\ fs = [p \in {"src/newmm.json"} |-> "vocabulary"]
    /\ save_ret = None

Init ==
    /\ ScriptIdle
    /\ TokIdle
    /\ SplitIdle
    /\ NewmmIdle
    /\ status = "new"
    /\ vocab_size \in SizeSet
    /\ vocab_min_freq \in MinFreqSet
    /\ special_tokens \in SpecialLists
    /\ input_files \in CorpusSet
    /\ vocab = None
    /\ freq = None
    /\ opened = {}
    /\ ncalls = 0
    /\ returned = <<>>
    /\ out_file = None

\* WordLevelTrainer.__init__ (a fresh instance on the same arguments)
Construct ==
    /\ ncalls' = 0
    /\ vocab' = None
    /\ freq' = None
    /\ opened' = {}
    /\ status' = IF InitRaises(vocab_size, vocab_min_freq) THEN "raised" ELSE "ready"
    /\ UNCHANGED <<vocab_size, vocab_min_freq, special_tokens, input_files,
                   returned, out_file>>
    /\ UNCHANGED <<scriptVars, tokVars, splitVars, newmmVars>>

\* WordLevelTrainer.count_parallel
CountParallel ==
    /\ status = "ready"
    /\ Len(returned) < MaxCalls
    /\ ncalls' = ncalls + 1
    /\ opened' = 1..Len(input_files)
    /\ LET rs == RemoveSpecial(CounterAll, Len(special_tokens))
           counter_all == rs[1]
           stf == rs[2]
       IN  IF vocab_size # None
           THEN \* most_common's result is dropped; list + Counter raises TypeError
                /\ returned' = Append(returned, [nth |-> ncalls + 1, ok |-> FALSE, vocab |-> None])
                /\ UNCHANGED <<vocab, freq>>
           ELSE IF vocab_min_freq = None /\ counter_all # <<>>
           THEN \* value >= None raises TypeError
                /\ returned' = Append(returned, [nth |-> ncalls + 1, ok |-> FALSE, vocab |-> None])
                /\ UNCHANGED <<vocab, freq>>
           ELSE LET kept == IF vocab_min_freq = None THEN <<>> ELSE FilterMinFreq(counter_all)
                    f == BuildFreq(stf, kept)
                IN  /\ freq' = Some(f)
                    /\ vocab' = Some(BuildVocab(f))
                    /\ returned' = Append(returned,
                          [nth |-> ncalls + 1, ok |-> TRUE, vocab |-> Some(BuildVocab(f))])
    /\ UNCHANGED <<status, vocab_size, vocab_min_freq, special_tokens, input_files,
                   out_file>>
    /\ UNCHANGED <<scriptVars, tokVars, splitVars, newmmVars>>

\* the vocabulary count_parallel last returned on this instance, whose
\* calls are the last ncalls entries of the history; None when none returned
LastReturned ==
    LET own == {c \in (Len(returned) - ncalls + 1)..Len(returned) : returned[c].ok}
    IN  IF own = {} THEN None
        ELSE returned[CHOOSE c \in own : \A d \in own : d <= c].vocab

\* WordLevelTrainer.save_vocab
SaveVocab ==
    /\ status = "ready"
    /\ out_file' = Some([json |-> JsonDump(vocab), last |-> LastReturned])
    /\ UNCHANGED <<status, vocab_size, vocab_min_freq, special_tokens, input_files,
                   vocab, freq, opened, ncalls, returned>>
    /\ UNCHANGED <<scriptVars, tokVars, splitVars, newmmVars>>

Next == Construct \/ CountParallel \/ SaveVocab

Spec == Init /\ [][Next]_vars

\* ------------------------------------------------------------------------
\* scripts/seq_cls_finetune.py
\* ------------------------------------------------------------------------
TOKENIZER_CLS ==
    [k \in {"spm", "newmm", "syllable", "sefr"} |->
        CASE k = "spm" -> "ThaiRobertaTokenizer"
          [] k = "newmm" -> "ThaiWordsNewmmTokenizer"
          [] k = "syllable" -> "ThaiWordsSyllableTokenizer"
          [] k = "sefr" -> "FakeSefrCutTokenizer"]

DATASET_METADATA ==
    [k \in {"wisesight_sentiment", "wongnai_reviews", "generated_reviews_then"} |->
        CASE k = "wisesight_sentiment" ->
                [text_input |-> "texts", label |-> "category", num_labels |-> 4]
          [] k = "wongnai_reviews" ->
                [text_input |-> "review_body", label |-> "star_rating", num_labels |-> 5]
          [] k = "generated_reviews_then" ->
                [text_input |-> "translation.th", label |-> "review_star", num_labels |-> 5]]

TokenizerTypeSet == DOMAIN TOKENIZER_CLS \cup {"bert"}
DatasetNameSet == DOMAIN DATASET_METADATA \cup {"generated_reviews_enth", "no_such_dataset"}

\* variant: dict.get with a default entry instead of the subscript
MetadataLookupDefault(name) ==
    IF name \in DOMAIN DATASET_METADATA THEN Some(DATASET_METADATA[name])
    ELSE Some([text_input |-> "text", label |-> "label", num_labels |-> 2])

\* DATASET_METADATA[name]: the entry, or None where the subscript raises KeyError
MetadataLookup(name) ==
    IF name \in DOMAIN DATASET_METADATA THEN Some(DATASET_METADATA[name]) ELSE None

\* line 187: args.tokenizer_type not in list(TOKENIZER_CLS.keys())
TypeUnsupported(t) == t \notin DOMAIN TOKENIZER_CLS

Raise(type, arg, at) ==
    /\ pc' = "failed"
    /\ exc' = Some([type |-> type, arg |-> arg, at |-> at])

InitScript ==
    /\ TrainerIdle
    /\ TokIdle
    /\ SplitIdle
    /\ NewmmIdle
    /\ pc = "start"
    /\ tokenizer_type \in TokenizerTypeSet
    /\ dataset_name \in DatasetNameSet
    /\ exc = None
    /\ model_loaded = FALSE
    /\ flags \in FlagsSet
    /\ training_args = None

\* line 168: load_dataset(args.dataset_name) returns, or raises the library's
\* own exception (FileNotFoundError for a name it cannot resolve), which the
\* except clause of lines 184-185 re-raises unchanged
LoadDataset ==
    /\ pc = "start"
    /\ \/ pc' = "dataset_loaded" /\ UNCHANGED exc
       \/ Raise("FileNotFoundError", dataset_name, "load_dataset")
    /\ UNCHANGED <<tokenizer_type, dataset_name, model_loaded, flags, training_args>>
    /\ UNCHANGED <<trainerVars, tokVars, splitVars, newmmVars>>

\* lines 170-185: the sefr branch looks the text column up and maps the splits
SefrBranch ==
    /\ pc = "dataset_loaded"
    /\ IF tokenizer_type = "sefr" /\ MetadataLookup(dataset_name) = None
       THEN Raise("KeyError", dataset_name, "sefr")
       ELSE pc' = "preprocessed" /\ UNCHANGED exc
    /\ UNCHANGED <<tokenizer_type, dataset_name, model_loaded, flags, training_args>>
    /\ UNCHANGED <<trainerVars, tokVars, splitVars, newmmVars>>

\* lines 187-190: raise of a str object is a TypeError
CheckTokenizerType ==
    /\ pc = "preprocessed"
    /\ IF TypeUnsupported(tokenizer_type)
       THEN Raise("TypeError", "exceptions must derive from BaseException",
                  "tokenizer_check")
       ELSE pc' = "type_checked" /\ UNCHANGED exc
    /\ UNCHANGED <<tokenizer_type, dataset_name, model_loaded, flags, training_args>>
    /\ UNCHANGED <<trainerVars, tokVars, splitVars, newmmVars>>

\* lines 193-196: the num_labels argument is evaluated before the call
InitModelTokenizer ==
    /\ pc = "type_checked"
    /\ IF MetadataLookup(dataset_name) = None
       THEN Raise("KeyError", dataset_name, "init_model") /\ UNCHANGED model_loaded
       ELSE pc' = "model_ready" /\ model_loaded' = TRUE /\ UNCHANGED exc
    /\ UNCHANGED <<tokenizer_type, dataset_name, flags, training_args>>
    /\ UNCHANGED <<trainerVars, tokVars, splitVars, newmmVars>>

\* lines 198-203
BuildDatasetSplit ==
    /\ pc = "model_ready"
    /\ pc' = "datasets_ready"
    /\ UNCHANGED <<tokenizer_type, dataset_name, exc, model_loaded, flags, training_args>>
    /\ UNCHANGED <<trainerVars, tokVars, splitVars, newmmVars>>

\* lines 206-227: the keyword arguments the script passes to init_trainer
InitTrainerCall ==
    [InitTrainerDefaults EXCEPT
        !.num_train_epochs = flags.num_train_epochs,
        !.learning_rate = flags.learning_rate,
        !.weight_decay = flags.weight_decay,
        !.warmup_steps = <<"ceil", "len(train)", flags.batch_size, flags.warmup_ratio>>,
        !.batch_size = flags.batch_size,
        !.no_cuda = flags.no_cuda,
        !.fp16 = flags.fp16]

\* lines 206-227
InitTrainer ==
    /\ pc = "datasets_ready"
    /\ pc' = "trainer_ready"
    /\ training_args' = Some(init_trainer(InitTrainerCall))
    /\ UNCHANGED <<tokenizer_type, dataset_name, exc, model_loaded, flags>>
    /\ UNCHANGED <<trainerVars, tokVars, splitVars, newmmVars>>

\* line 234
Train ==
    /\ pc = "trainer_ready"
    /\ pc' = "trained"
    /\ UNCHANGED <<tokenizer_type, dataset_name, exc, model_loaded, flags, training_args>>
    /\ UNCHANGED <<trainerVars, tokVars, splitVars, newmmVars>>

\* lines 238-244
Evaluate ==
    /\ pc = "trained"
    /\ pc' = "done"
    /\ UNCHANGED <<tokenizer_type, dataset_name, exc, model_loaded, flags, training_args>>
    /\ UNCHANGED <<trainerVars, tokVars, splitVars, newmmVars>>

NextScript ==
    \/ LoadDataset
    \/ SefrBranch
    \/ CheckTokenizerType
    \/ InitModelTokenizer
    \/ BuildDatasetSplit
    \/ InitTrainer
    \/ Train
    \/ Evaluate

SpecScript == InitScript /\ [][NextScript]_vars

\* ------------------------------------------------------------------------
\* build_inputs_with_special_tokens
\* ------------------------------------------------------------------------
IdSet == 0..MaxId
IdLists == UNION {[1..n -> IdSet] : n \in 0..MaxSeq}
TokClassSet == {"ThaiRobertaTokenizer", "ThaiWordsNewmmTokenizer"}

\* ThaiRobertaTokenizer.build_inputs_with_special_tokens
RobertaBuildInputs(t0, t1) ==
    IF t1 = None
    THEN <<cls_token_id>> \o t0 \o <<sep_token_id>>
    ELSE LET cls == <<cls_token_id>>
             sep == <<sep_token_id>>
         IN  cls \o t0 \o sep \o sep \o Val(t1) \o sep

\* variant: one separator between the two sequences
NewmmBuildInputsOneSep(t0, t1) ==
    IF t1 = None
    THEN <<cls_token_id>> \o t0 \o <<sep_token_id>>
    ELSE <<cls_token_id>> \o t0 \o <<sep_token_id>> \o Val(t1) \o <<sep_token_id>>

\* ThaiWordsNewmmTokenizer.build_inputs_with_special_tokens
NewmmBuildInputs(t0, t1) ==
    IF t1 = None
    THEN <<cls_token_id>> \o t0 \o <<sep_token_id>>
    ELSE LET cls == <<cls_token_id>>
             sep == <<sep_token_id>>
         IN  cls \o t0 \o sep \o sep \o Val(t1) \o sep

InitTok ==
    /\ TrainerIdle
    /\ ScriptIdle
    /\ SplitIdle
    /\ NewmmIdle
    /\ tok_class \in TokClassSet
    /\ cls_token_id \in IdSet
    /\ sep_token_id \in IdSet
    /\ token_ids_0 \in IdLists
    /\ token_ids_1 \in {None} \cup {Some(l) : l \in IdLists}
    /\ built = None

BuildInputs ==
    /\ built = None
    /\ built' = Some(IF tok_class = "ThaiRobertaTokenizer"
                     THEN RobertaBuildInputs(token_ids_0, token_ids_1)
                     ELSE NewmmBuildInputs(token_ids_0, token_ids_1))
    /\ UNCHANGED <<tok_class, cls_token_id, sep_token_id, token_ids_0, token_ids_1>>
    /\ UNCHANGED <<trainerVars, scriptVars, splitVars, newmmVars>>

NextTok == BuildInputs

SpecTok == InitTok /\ [][NextTok]_vars

\* ------------------------------------------------------------------------
\* Properties of WordLevelTrainer (specification Spec)
\* ------------------------------------------------------------------------
AllTokens == SpecialTokenSet \cup UNION {{l[i] : i \in 1..Len(l)} : l \in LineSet}

SpecialSet == {special_tokens[i] : i \in 1..Len(special_tokens)}

\* occurrences of tok over all lines of all input files
TotalCount(tok) ==
    Cardinality({<<i, j, k>> \in (1..Len(input_files)) \X (1..MaxLines + 1) \X (1..2) :
                    /\ j <= Len(input_files[i])
                    /\ k <= Len(input_files[i][j])
                    /\ input_files[i][j][k] = tok})

\* C1: after count_parallel returns, the i-th declared special token
\* (counting from 0) is mapped to index i.
C1_SpecialPrefix ==
    vocab # None =>
        \A i \in 1..Len(special_tokens) :
            /\ special_tokens[i] \in DOMAIN Val(vocab)
            /\ Val(vocab)[special_tokens[i]] = i - 1

\* C2: after count_parallel returns, the indices of the vocabulary are
\* exactly 0..n-1 for the n tokens of the mapping, no index used twice.
C2_DenseIndices ==
    vocab # None =>
        LET v == Val(vocab)
            n == Cardinality(DOMAIN v)
        IN  /\ {v[k] : k \in DOMAIN v} = 0..(n - 1)
            /\ \A k1, k2 \in DOMAIN v : v[k1] = v[k2] => k1 = k2

\* C3: the constructor raises exactly when both vocab_size and
\* vocab_min_freq are given; an instance whose constructor raised reads no
\* input file and produces no vocabulary.
C3_BothCutoffsRaise ==
    status # "new" =>
        /\ (Len(vocab_size) = 1 /\ Len(vocab_min_freq) = 1) => status = "raised"
        /\ (Len(vocab_size) + Len(vocab_min_freq) = 1) => status = "ready"
        /\ status = "raised" =>
              opened = {} /\ vocab = None /\ returned = <<>> /\ out_file = None

C3_Witness ==
    /\ status = "raised"
    /\ vocab_size # None
    /\ vocab_min_freq # None
    /\ input_files # <<>>

\* C4: with vocab_min_freq set, a non-special token whose total count over
\* all input files is below the cutoff is absent from the vocabulary, and
\* every special token is present whatever its count.
C4_MinFreqCutoff ==
    (vocab_min_freq # None /\ vocab # None) =>
        \A tok \in AllTokens :
            IF tok \in SpecialSet
            THEN tok \in DOMAIN Val(vocab)
            ELSE tok \in DOMAIN Val(vocab) => TotalCount(tok) >= Val(vocab_min_freq)

C4_Witness ==
    /\ vocab_min_freq # None
    /\ vocab # None
    /\ Len(input_files) > 1
    /\ \E tok \in AllTokens \ SpecialSet :
          /\ TotalCount(tok) > 0
          /\ TotalCount(tok) < Val(vocab_min_freq)
          /\ tok \notin DOMAIN Val(vocab)
    /\ \E tok \in AllTokens \ SpecialSet :
          /\ tok \in DOMAIN Val(vocab)
          /\ \A i \in 1..Len(input_files) : Get(count_one(input_files[i]), tok) < Val(vocab_min_freq)
    /\ \E tok \in SpecialSet :
          /\ TotalCount(tok) > 0
          /\ TotalCount(tok) < Val(vocab_min_freq)
          /\ tok \in DOMAIN Val(vocab)

\* C5: with vocab_size set, every count_parallel call returns a vocabulary
\* of the special tokens followed by at most vocab_size non-special tokens,
\* which are the most frequent ones of the corpus.
C5_SizeCutoff ==
    vocab_size # None =>
        \A c \in 1..Len(returned) :
            /\ returned[c].ok
            /\ LET v == Val(returned[c].vocab)
                   kept == DOMAIN v \ SpecialSet
               IN  /\ SpecialSet \subseteq DOMAIN v
                   /\ Cardinality(kept) <= Val(vocab_size)
                   /\ \A k \in kept : \A t \in (AllTokens \ SpecialSet) \ kept :
                          TotalCount(k) >= TotalCount(t)

C9_SavedIsLastVocab ==
    out_file # None =>
        LET f == Val(out_file)
        IN  /\ f.json.kind = "object"
            /\ f.last # None
            /\ f.json.members = {<<k, Val(f.last)[k]>> : k \in DOMAIN Val(f.last)}

\* ------------------------------------------------------------------------
\* Properties of the fine-tuning script (specification SpecScript)
\* ------------------------------------------------------------------------
Terminated == pc \in {"failed", "done"}

\* C7: with a tokenizer_type outside TOKENIZER_CLS (and the dataset
\* loaded), the script ends with a value error or lookup error that names
\* the tokenizer type, before the model and tokenizer are loaded.
C7_UnsupportedTokenizerType ==
    (tokenizer_type \notin DOMAIN TOKENIZER_CLS /\ exc # None
        /\ Val(exc).at # "load_dataset") =>
        /\ Val(exc).type \in {"ValueError", "LookupError", "KeyError"}
        /\ Val(exc).arg = tokenizer_type
        /\ ~model_loaded

\* C8 as stated: with a dataset_name outside DATASET_METADATA and a
\* supported tokenizer type, the script ends with a value error or lookup
\* error before the model is loaded.
C8_UnsupportedDatasetLookupError ==
    (dataset_name \notin DOMAIN DATASET_METADATA
        /\ tokenizer_type \in DOMAIN TOKENIZER_CLS) =>
        /\ ~model_loaded
        /\ pc \in {"start", "dataset_loaded", "preprocessed", "type_checked", "failed"}
        /\ pc = "failed" => Val(exc).type \in {"ValueError", "LookupError", "KeyError"}

\* C8 amended: with a dataset_name outside DATASET_METADATA and a
\* supported tokenizer type, the script never loads the model or starts
\* training; it ends with the exception load_dataset raised, or else with
\* a KeyError on the dataset name raised in the sefr branch (tokenizer
\* type sefr) or at the num_labels lookup (any other type).
C8_UnsupportedDatasetFails ==
    (dataset_name \notin DOMAIN DATASET_METADATA
        /\ tokenizer_type \in DOMAIN TOKENIZER_CLS) =>
        /\ ~model_loaded
        /\ pc \in {"start", "dataset_loaded", "preprocessed", "type_checked", "failed"}
        /\ pc = "failed" =>
              \/ Val(exc).at = "load_dataset"
              \/ /\ Val(exc).type = "KeyError"
                 /\ Val(exc).arg = dataset_name
                 /\ Val(exc).at = IF tokenizer_type = "sefr" THEN "sefr" ELSE "init_model"

C8_Witness ==
    /\ dataset_name = "generated_reviews_enth"
    /\ tokenizer_type = "newmm"
    /\ pc = "failed"
    /\ Val(exc).type = "KeyError"
    /\ Val(exc).at = "init_model"

\* ------------------------------------------------------------------------
\* Properties of build_inputs_with_special_tokens (specification SpecTok)
\* ------------------------------------------------------------------------
\* C10: for a single sequence X the result is cls, X, sep; for a pair A, B
\* it is cls, A, sep, sep, B, sep; the input ids are unchanged and in
\* order, and the length is len(X)+2 or len(A)+len(B)+4.
C10_BuildInputs ==
    built # None =>
        LET r == Val(built)
            a == Len(token_ids_0)
        IN  /\ r[1] = cls_token_id
            /\ \A i \in 1..a : r[1 + i] = token_ids_0[i]
            /\ r[a + 2] = sep_token_id
            /\ IF token_ids_1 = None
               THEN Len(r) = a + 2
               ELSE LET b == Len(Val(token_ids_1))
                    IN  /\ Len(r) = a + b + 4
                        /\ r[a + 3] = sep_token_id
                        /\ \A i \in 1..b : r[a + 3 + i] = Val(token_ids_1)[i]
                        /\ r[a + b + 4] = sep_token_id

C10_Witness ==
    /\ built # None
    /\ tok_class = "ThaiWordsNewmmTokenizer"
    /\ token_ids_1 # None
    /\ Len(token_ids_0) = MaxSeq
    /\ Len(Val(token_ids_1)) > 0
    /\ cls_token_id # sep_token_id

\* ------------------------------------------------------------------------
\* Further properties of the fine-tuning script (specification SpecScript)
\* ------------------------------------------------------------------------
\* the dataset names the help text of the dataset_name argument lists
HelpDatasetNames == {"wisesight_sentiment", "generated_reviews_enth", "wongnai_reviews"}

\* C11: a run on a dataset name the command-line help lists never ends
\* with a lookup error on the dataset name.
C11_HelpDatasetsSupported ==
    (dataset_name \in HelpDatasetNames /\ exc # None) =>
        ~(Val(exc).type = "KeyError" /\ Val(exc).arg = dataset_name)

C14_NoCutoffBuilds ==
    (status = "ready" /\ vocab_size = None /\ vocab_min_freq = None) =>
        \A c \in 1..Len(returned) : returned[c].ok /\ returned[c].vocab # None

\* ------------------------------------------------------------------------
\* The optional flags (specification SpecScript)
\* ------------------------------------------------------------------------
\* C15: once the trainer is initialised, the value given for each optional
\* flag is the value the TrainingArguments carry (a field that init_trainer
\* does not set carries no value of the command line).
C15_FlagsTakeEffect ==
    training_args # None =>
        LET t == Val(training_args)
            Carries(field, value) == field \in DOMAIN t /\ t[field] = value
        IN  /\ Carries("seed", flags.seed)
            /\ Carries("eval_steps", flags.eval_steps)
            /\ Carries("logging_steps", flags.logging_steps)
            /\ Carries("metric_for_best_model", flags.metric_for_best_model)
            /\ flags.save_steps # DefaultFlags.save_steps
                  => Carries("save_steps", flags.save_steps)
            /\ flags.greater_is_better # DefaultFlags.greater_is_better
                  => Carries("greater_is_better", flags.greater_is_better)
            /\ Carries("num_train_epochs", flags.num_train_epochs)
            /\ Carries("learning_rate", flags.learning_rate)
            /\ Carries("weight_decay", flags.weight_decay)
            /\ Carries("per_device_train_batch_size", flags.batch_size)
            /\ Carries("per_device_eval_batch_size", flags.batch_size)
            /\ Carries("no_cuda", flags.no_cuda)
            /\ Carries("fp16", flags.fp16)

\* ------------------------------------------------------------------------
\* CustomPreTokenizer.split
\* ------------------------------------------------------------------------
CharSet == {"x", "y"}
TextSet == UNION {[1..n -> CharSet] : n \in 0..MaxText}

\* s[a:b] of Python, 0 <= a <= b <= len(s)
Slice(s, a, b) == SubSeq(s, a + 1, b)

\* the lists of words (empty words included) that concatenate to t
Segmentations(t) ==
    UNION {{[i \in 1..n |-> Slice(t, c[i], c[i + 1])] :
                c \in {d \in [1..(n + 1) -> 0..Len(t)] :
                          /\ d[1] = 0
                          /\ d[n + 1] = Len(t)
                          /\ \A i \in 1..n : d[i] <= d[i + 1]}} :
           n \in 0..MaxWords}

\* variant: total_i set to the length of the word instead of increased by it
BreakPointsNoSum(words) == [j \in 1..Len(words) |-> Len(words[j])]

RECURSIVE BreakPoints(_)
\* lines 52-56: break_i, the running total of the word lengths
BreakPoints(words) ==
    IF words = <<>> THEN <<>>
    ELSE LET before == BreakPoints(SubSeq(words, 1, Len(words) - 1))
             total_i == IF before = <<>> THEN 0 ELSE before[Len(before)]
         IN  Append(before, total_i + Len(words[Len(words)]))

RECURSIVE SplitLoop(_, _, _)
\* lines 57-62: <<splits, last>> after the characters at indices 0..n-1
SplitLoop(ns, break_i, n) ==
    IF n = 0 THEN <<<<>>, 0>>
    ELSE LET prev == SplitLoop(ns, break_i, n - 1)
             i == n - 1
         IN  IF \E j \in 1..Len(break_i) : break_i[j] = i
             THEN <<Append(prev[1], Slice(ns, prev[2], i)), i>>
             ELSE prev

\* CustomPreTokenizer.split, lines 49-64
split(ns, words) ==
    LET r == SplitLoop(ns, BreakPoints(words), Len(ns))
    IN  Append(r[1], Slice(ns, r[2], Len(ns)))

InitSplit ==
    /\ TrainerIdle
    /\ ScriptIdle
    /\ TokIdle
    /\ NewmmIdle
    /\ text \in TextSet
    /\ pre_words \in Segmentations(text)
    /\ splits = None

CallSplit ==
    /\ splits = None
    /\ splits' = Some(split(text, pre_words))
    /\ UNCHANGED <<text, pre_words>>
    /\ UNCHANGED <<trainerVars, scriptVars, tokVars, newmmVars>>

NextSplit == CallSplit

SpecSplit == InitSplit /\ [][NextSplit]_vars

RECURSIVE Concat(_)
Concat(ws) == IF ws = <<>> THEN <<>> ELSE Concat(SubSeq(ws, 1, Len(ws) - 1)) \o ws[Len(ws)]

PiecesAreWords ==
    LET r == Val(splits)
    IN  /\ Len(r) = Len(pre_words)
        /\ \A i \in 1..Len(r) : r[i] = pre_words[i] /\ r[i] # <<>>
        /\ Concat(r) = text

\* C13 as stated: for every input and every segmentation of it, empty
\* words included, the pieces are the words, one per word and in order,
\* they concatenate to the input, and none is empty.
C13_PiecesAreWordsAlways == splits # None => PiecesAreWords

\* C13 amended: the same for every non-empty input and every segmentation
\* of it into non-empty words.
C13_PiecesAreWords ==
    (splits # None /\ text # <<>> /\ \A i \in 1..Len(pre_words) : pre_words[i] # <<>>)
        => PiecesAreWords

C13_Witness ==
    /\ splits # None
    /\ Len(pre_words) = MaxWords
    /\ \A i \in 1..Len(pre_words) : pre_words[i] # <<>>
    /\ Len(Val(splits)) = MaxWords

\* ------------------------------------------------------------------------
\* ThaiWordsNewmmTokenizer: _tokenize, pickling, save_vocabulary
\* ------------------------------------------------------------------------
\* module level, line 23
VOCAB_FILES_NAMES == [vocab_file |-> "sentencepiece.bpe.model"]

\* ThaiWordsNewmmTokenizer.vocab_files_names, line 367
vocab_files_names == [vocab_file |-> "newmm.json"]

\* the pre-tokenization objects: PRE_TOKENIZERS_MAP['newmm'] is a partial of
\* word_tokenize, a callable; a Trie instance is not callable
PRE_TOKENIZERS_MAP == [newmm |-> "partial(word_tokenize)"]
Callable(pre) == pre = "partial(word_tokenize)"

\* the words of the vocabulary file
VocabContent == {<<"x">>, <<"x", "y">>, <<"<unk>">>}
UnkToken == <<"<unk>">>

DirSet == {"src", "dst"}
\* os.path.isdir
IsDir(d) == d \in DirSet
\* os.path.join
Join(d, name) == d \o "/" \o name

VocabPathSet == {Join("src", "newmm.json"), Join("dst", "newmm.json"),
                 Join("dst", "sentencepiece.bpe.model")}
SaveDirSet == {"dst", "nodir"}
PrefixSet == {None, Some("th")}

\* lines 526-528
OutVocabFile(dir, prefix) ==
    Join(dir, (IF prefix # None THEN Val(prefix) \o "-" ELSE "")
                  \o VOCAB_FILES_NAMES.vocab_file)

\* Tokenizer(models.WordLevel.from_file(vocab_file)) with its pre_tokenizer
\* set to CustomPreTokenizer(pre)
NewTokenizer(vocab_file, pre) == [vocab |-> fs[vocab_file], pre |-> pre]

\* __init__, lines 393-399
NewmmInit(vocab_file) ==
    [vocab_file |-> vocab_file,
     tokenizer_model |-> Some(NewTokenizer(vocab_file, PRE_TOKENIZERS_MAP.newmm))]

\* __getstate__, lines 503-506: a copy of __dict__ with tokenizer_model None
GetStateDict(o) == [o EXCEPT !.tokenizer_model = None]

\* __setstate__, lines 508-515: the pre-tokenization function is a Trie
SetStateObject(d) ==
    [vocab_file |-> d.vocab_file,
     tokenizer_model |-> Some(NewTokenizer(d.vocab_file, "Trie"))]

\* _tokenize, line 489: the pieces of CustomPreTokenizer.split, each looked
\* up in the WordLevel vocabulary; calling a pre-tokenization object that is
\* not callable raises TypeError
Tokenize(o, t, words) ==
    IF o.tokenizer_model = None
    THEN [ok |-> FALSE, error |-> "AttributeError", tokens |-> <<>>]
    ELSE LET m == Val(o.tokenizer_model)
         IN  IF ~Callable(m.pre)
             THEN [ok |-> FALSE, error |-> "TypeError", tokens |-> <<>>]
             ELSE LET pieces == split(t, words)
                  IN  [ok |-> TRUE, error |-> "",
                       tokens |-> [i \in 1..Len(pieces) |->
                           IF pieces[i] \in m.vocab THEN pieces[i] ELSE UnkToken]]

InitNewmm ==
    /\ TrainerIdle
    /\ ScriptIdle
    /\ TokIdle
    /\ text \in TextSet \ {<<>>}
    /\ pre_words \in {w \in Segmentations(text) : \A i \in 1..Len(w) : w[i] # <<>>}
    /\ splits = None
    /\ \E vf \in VocabPathSet :
          /\ fs = [p \in {vf} |-> VocabContent]
          /\ obj = NewmmInit(vf)
    /\ state = None
    /\ copy = None
    /\ tok_out = None
    /\ copy_out = None
    /\ save_directory \in SaveDirSet
    /\ filename_prefix \in PrefixSet
    /\ save_ret = None

\* ThaiWordsNewmmTokenizer.__getstate__
GetState ==
    /\ state = None
    /\ state' = Some(GetStateDict(obj))
    /\ UNCHANGED <<obj, copy, tok_out, copy_out, save_directory, filename_prefix,
                   fs, save_ret>>
    /\ UNCHANGED <<trainerVars, scriptVars, tokVars, splitVars>>

\* ThaiWordsNewmmTokenizer.__setstate__ on the unpickled state
SetState ==
    /\ state # None
    /\ copy = None
    /\ copy' = Some(SetStateObject(Val(state)))
    /\ UNCHANGED <<obj, state, tok_out, copy_out, save_directory, filename_prefix,
                   fs, save_ret>>
    /\ UNCHANGED <<trainerVars, scriptVars, tokVars, splitVars>>

\* _tokenize(text) on the live tokenizer
TokenizeLive ==
    /\ tok_out = None
    /\ tok_out' = Some(Tokenize(obj, text, pre_words))
    /\ UNCHANGED <<obj, state, copy, copy_out, save_directory, filename_prefix,
                   fs, save_ret>>
    /\ UNCHANGED <<trainerVars, scriptVars, tokVars, splitVars>>

\* _tokenize(text) on the restored tokenizer
TokenizeRestored ==
    /\ copy # None
    /\ copy_out = None
    /\ copy_out' = Some(Tokenize(Val(copy), text, pre_words))
    /\ UNCHANGED <<obj, state, copy, tok_out, save_directory, filename_prefix,
                   fs, save_ret>>
    /\ UNCHANGED <<trainerVars, scriptVars, tokVars, splitVars>>

\* ThaiWordsNewmmTokenizer.save_vocabulary, lines 522-533
SaveVocabulary ==
    /\ save_ret = None
    /\ IF ~IsDir(save_directory)
       THEN /\ save_ret' = Some([value |-> None])
            /\ UNCHANGED fs
       ELSE LET out_vocab_file == OutVocabFile(save_directory, filename_prefix)
            IN  /\ save_ret' = Some([value |-> Some(out_vocab_file)])
                /\ IF obj.vocab_file # out_vocab_file
                   THEN fs' = [p \in DOMAIN fs \cup {out_vocab_file} |->
                                  IF p = out_vocab_file THEN fs[obj.vocab_file] ELSE fs[p]]
                   ELSE UNCHANGED fs
    /\ UNCHANGED <<obj, state, copy, tok_out, copy_out, save_directory, filename_prefix>>
    /\ UNCHANGED <<trainerVars, scriptVars, tokVars, splitVars>>

NextNewmm ==
    \/ GetState
    \/ SetState
    \/ TokenizeLive
    \/ TokenizeRestored
    \/ SaveVocabulary

SpecNewmm == InitNewmm /\ [][NextNewmm]_vars

\* the file the class looks for in a directory
ClassVocabFile(dir, prefix) ==
    Join(dir, (IF prefix # None THEN Val(prefix) \o "-" ELSE "")
                  \o vocab_files_names.vocab_file)

\* C16: save_vocabulary on an existing directory writes the vocabulary
\* under the name of the class's vocab_files_names and returns that name;
\* on a path that is not a directory it copies nothing and returns no name.
C16_SaveRoundTrip ==
    save_ret # None =>
        IF IsDir(save_directory)
        THEN LET f == ClassVocabFile(save_directory, filename_prefix)
             IN  /\ Val(save_ret).value = Some(f)
                 /\ f \in DOMAIN fs
                 /\ fs[f] = fs[obj.vocab_file]
        ELSE /\ Val(save_ret).value = None
             /\ DOMAIN fs = {obj.vocab_file}

\* C17: __getstate__ leaves the live tokenizer's tokenizer_model set and
\* yields a state without it; __setstate__ rebuilds a tokenizer_model on the
\* same vocabulary with the pre-tokenization function of __init__, and the
\* restored tokenizer tokenizes the text as the live one does.
C17_PickleRoundTrip ==
    /\ state # None =>
          /\ obj.tokenizer_model # None
          /\ Val(state).tokenizer_model = None
          /\ Val(state).vocab_file = obj.vocab_file
    /\ copy # None =>
          /\ Val(copy).tokenizer_model # None
          /\ Val(Val(copy).tokenizer_model) = Val(obj.tokenizer_model)
    /\ (tok_out # None /\ copy_out # None) => copy_out = tok_out

====
